---- MODULE Spec2Model ----
(***************************************************************************)
(* Model of the request binder of mbict/go-binding (binder.go).            *)
(*                                                                         *)
(* A target record is described by its declared fields (FieldsOf) and its  *)
(* value is the tuple of its field values, in declaration order.  A nil    *)
(* pointer and a nil slice are the empty tuple; a populated pointer is the *)
(* one-element tuple holding the record it points to.  An Errors value is  *)
(* a sequence of Error records.  Go passes an Errors value (a slice) by    *)
(* value: what a callee appends to its parameter is not seen by the caller *)
(* unless the callee returns it.                                           *)
(***************************************************************************)
EXTENDS Integers, Sequences, FiniteSets, TLC

VARIABLES obj, old, req, call, route, pc, ret, trace, hookArgs, raised

vars == <<obj, old, req, call, route, pc, ret, trace, hookArgs, raised>>

(***************************************************************************)
(* Bounds of the inputs.                                                   *)
(***************************************************************************)
MaxVals == 3

MaxFiles == 2

(***************************************************************************)
(* Errors                                                                  *)
(***************************************************************************)
NewError(fieldNames, classification, message) ==
    [FieldNames |-> fieldNames, Classification |-> classification, Message |-> message]

\* Errors.Add / Errors.AddError on an addressable Errors variable: append.
Add(errors, fieldNames, classification, message) ==
    Append(errors, NewError(fieldNames, classification, message))

ErrorEmptyContentType == NewError(<<>>, "ContentTypeError", "Empty Content-Type")

ErrorUnsupportedContentType == NewError(<<>>, "ContentTypeError", "Unsupported Content-Type")

ErrorInputNotByReference ==
    NewError(<<>>, "DeserializationError", "input binding model is not by reference")

ErrorInputIsNotStructure ==
    NewError(<<>>, "DeserializationError", "binding model is required to be structure")

(***************************************************************************)
(* Declared shapes: a field is its name, kind, element (the record type of *)
(* a struct or pointer field, the element kind of a slice), its form tag,  *)
(* its binding rules, and whether it is anonymous and exported.            *)
(***************************************************************************)
Rule(name, n) == [name |-> name, n |-> n]

Required == Rule("Required", 0)

Field(name, kind, elem, form, binding, anonymous, exported) ==
    [Name |-> name, Kind |-> kind, Elem |-> elem, form |-> form, binding |-> binding,
     Anonymous |-> anonymous, exported |-> exported]

Post ==
    << Field("Title", "string", "", "title", <<Required>>, FALSE, TRUE),
       Field("Content", "string", "", "content", <<>>, FALSE, TRUE) >>

Person ==
    << Field("Name", "string", "", "name", <<Required>>, FALSE, TRUE),
       Field("Email", "string", "", "email", <<>>, FALSE, TRUE) >>

BlogPost ==
    << Field("Post", "struct", "Post", "", <<>>, TRUE, TRUE),
       Field("Id", "int", "", "id", <<Required>>, FALSE, TRUE),
       Field("Ignored", "string", "", "-", <<>>, FALSE, TRUE),
       Field("Ratings", "slice", "int", "rating", <<>>, FALSE, TRUE),
       Field("Author", "struct", "Person", "", <<>>, FALSE, TRUE),
       Field("Coauthor", "ptr", "Person", "", <<>>, FALSE, TRUE),
       Field("HeaderImage", "file", "", "headerImage", <<>>, FALSE, TRUE),
       Field("Pictures", "slice", "file", "picture", <<>>, FALSE, TRUE),
       Field("unexported", "string", "", "unexported", <<>>, FALSE, FALSE) >>

EmbedPerson ==
    << Field("Person", "ptr", "Person", "", <<>>, TRUE, TRUE) >>

SadForm ==
    << Field("AlphaDash", "string", "", "AlphaDash", <<Rule("AlphaDash", 0)>>, FALSE, TRUE),
       Field("AlphaDashDot", "string", "", "AlphaDashDot", <<Rule("AlphaDashDot", 0)>>, FALSE, TRUE),
       Field("MinSize", "string", "", "MinSize", <<Rule("MinSize", 5)>>, FALSE, TRUE),
       Field("MinSizeSlice", "slice", "string", "MinSizeSlice", <<Rule("MinSize", 5)>>, FALSE, TRUE),
       Field("MaxSize", "string", "", "MaxSize", <<Rule("MaxSize", 1)>>, FALSE, TRUE),
       Field("MaxSizeSlice", "slice", "string", "MaxSizeSlice", <<Rule("MaxSize", 1)>>, FALSE, TRUE),
       Field("Email", "string", "", "Email", <<Rule("Email", 0)>>, FALSE, TRUE),
       Field("Url", "string", "", "Url", <<Rule("Url", 0)>>, FALSE, TRUE),
       Field("UrlEmpty", "string", "", "UrlEmpty", <<Rule("Url", 0)>>, FALSE, TRUE) >>

\* A record in the style of BlogPost whose tags combine the ignore marker,
\* an unexported field and a nested record with the Required rule.
Signed ==
    << Field("Signer", "struct", "Person", "", <<Required>>, FALSE, TRUE),
       Field("Secret", "string", "", "-", <<Required>>, FALSE, TRUE),
       Field("hidden", "string", "", "hidden", <<Required>>, FALSE, FALSE),
       Field("Count", "int", "", "count", <<Required, Rule("MinSize", 5)>>, FALSE, TRUE) >>

Types == {"Post", "Person", "BlogPost", "EmbedPerson", "SadForm", "Signed"}

FieldsOf(t) ==
    CASE t = "Post" -> Post
      [] t = "Person" -> Person
      [] t = "BlogPost" -> BlogPost
      [] t = "EmbedPerson" -> EmbedPerson
      [] t = "SadForm" -> SadForm
      [] t = "Signed" -> Signed

NumField(t) == Len(FieldsOf(t))

NoFile == "nil"

Nil == <<>>

\* reflect.Zero of a type: a kind and, for a record or a pointer to one, the
\* record type.
RECURSIVE Zero(_, _)
Zero(kind, elem) ==
    CASE kind = "string" -> ""
      [] kind \in {"int", "uint", "float32", "float64"} -> 0
      [] kind = "bool" -> FALSE
      [] kind = "file" -> NoFile
      [] kind = "slice" -> Nil
      [] kind = "ptr" -> Nil
      [] kind = "struct" ->
           [i \in 1..NumField(elem) |-> Zero(FieldsOf(elem)[i].Kind, FieldsOf(elem)[i].Elem)]

\* reflect.New(T).Elem(): the zero record of type t.
ZeroStruct(t) == Zero("struct", t)

(***************************************************************************)
(* Type Coercer                                                            *)
(***************************************************************************)
Lits == {"", "1", "2", "notanumber"}

\* strconv.ParseInt(val, 10, 64) and ParseUint on the literals.
ParseIntOk(val) == val \in {"0", "1", "2"}

\* strconv.ParseFloat on the literals.
ParseFloatOk(val) == val \in {"0", "0.0", "1", "2"}

ParseNum(val) ==
    CASE val = "1" -> 1
      [] val = "2" -> 2
      [] OTHER -> 0

\* strconv.ParseBool
ParseBoolOk(val) == val \in {"1", "0", "true", "false"}

ParseBool(val) == val \in {"1", "true"}

\* The value of structField and the callee's own errors after
\* setWithProperType(valueKind, val, structField, nameInTag, errors).
setWithProperType(valueKind, val, structField, nameInTag, errors) ==
    CASE valueKind = "int" ->
           LET v == IF val = "" THEN "0" ELSE val
           IN  IF ~ParseIntOk(v)
               THEN [field |-> structField,
                     errors |-> Add(errors, <<nameInTag>>, "IntegerTypeError",
                                    "Value could not be parsed as integer")]
               ELSE [field |-> ParseNum(v), errors |-> errors]
      [] valueKind = "uint" ->
           LET v == IF val = "" THEN "0" ELSE val
           IN  IF ~ParseIntOk(v)
               THEN [field |-> structField,
                     errors |-> Add(errors, <<nameInTag>>, "IntegerTypeError",
                                    "Value could not be parsed as unsigned integer")]
               ELSE [field |-> ParseNum(v), errors |-> errors]
      [] valueKind = "bool" ->
           IF val = "on" THEN [field |-> TRUE, errors |-> errors]
           ELSE LET v == IF val = "" THEN "false" ELSE val
                IN  IF ~ParseBoolOk(v)
                    THEN [field |-> structField,
                          errors |-> Add(errors, <<nameInTag>>, "BooleanTypeError",
                                         "Value could not be parsed as boolean")]
                    ELSE [field |-> IF ParseBool(v) THEN TRUE ELSE structField,
                          errors |-> errors]
      [] valueKind = "float32" ->
           LET v == IF val = "" THEN "0.0" ELSE val
           IN  IF ~ParseFloatOk(v)
               THEN [field |-> structField,
                     errors |-> Add(errors, <<nameInTag>>, "FloatTypeError",
                                    "Value could not be parsed as 32-bit float")]
               ELSE [field |-> ParseNum(v), errors |-> errors]
      [] valueKind = "float64" ->
           LET v == IF val = "" THEN "0.0" ELSE val
           IN  IF ~ParseFloatOk(v)
               THEN [field |-> structField,
                     errors |-> Add(errors, <<nameInTag>>, "FloatTypeError",
                                    "Value could not be parsed as 64-bit float")]
               ELSE [field |-> ParseNum(v), errors |-> errors]
      [] valueKind = "string" -> [field |-> val, errors |-> errors]
      [] OTHER -> [field |-> structField, errors |-> errors]

(***************************************************************************)
(* Shape Walker / Binder                                                   *)
(*                                                                         *)
(* The walk's state is the record being filled (val), whether the walk     *)
(* panicked, and the errors that were appended to a by-value copy of the   *)
(* errors parameter and so are dropped when the callee returns (raised).   *)
(***************************************************************************)
Has(m, key) == key \in DOMAIN m

\* A map without keys; a nil map reads as one.
EmptyBag == [k \in {} |-> <<>>]

\* The elements a callee appended to its copy of errors.
Appended(errors, after) == SubSeq(after, Len(errors) + 1, Len(after))

\* A walk's state: the record, whether the walk panicked, the dropped errors.
Walk(val, panic, dropped) == [val |-> val, panic |-> panic, raised |-> dropped]

\* One element of the new slice before the rest: e is what setWithProperType
\* left of the element and of its copy of errors.
Cons(e, rest, errors) ==
    [slice |-> <<e.field>> \o rest.slice,
     raised |-> Appended(errors, e.errors) \o rest.raised]

\* mapForm lines 302-305: the new slice, element by element.
RECURSIVE sliceOfValues(_, _, _, _, _)
sliceOfValues(sliceOf, inputValue, nameInTag, errors, i) ==
    IF i > Len(inputValue) THEN [slice |-> <<>>, raised |-> <<>>]
    ELSE Cons(setWithProperType(sliceOf, inputValue[i], Zero(sliceOf, ""), nameInTag, errors),
              sliceOfValues(sliceOf, inputValue, nameInTag, errors, i + 1), errors)

\* mapForm line 306: the field is set to the new slice.
SetSlice(s) == Walk(s.slice, FALSE, s.raised)

\* mapForm line 308: the field after setWithProperType on the first value.
SetValue(e, errors) == Walk(e.field, FALSE, Appended(errors, e.errors))

\* mapForm lines 297-310: the key is in the string values.
mapValues(f, structField, inputValue, errors) ==
    IF f.Kind = "slice" /\ Len(inputValue) > 0
    THEN SetSlice(sliceOfValues(f.Elem, inputValue, f.form, errors, 1))
    ELSE IF Len(inputValue) = 0
    THEN Walk(structField, TRUE, <<>>)
    ELSE SetValue(setWithProperType(f.Kind, inputValue[1], structField, f.form, errors),
                  errors)

\* mapForm lines 313-327: the key is in the file values.
mapFiles(f, structField, inputFile) ==
    IF f.Kind = "slice" /\ Len(inputFile) > 0 /\ f.Elem = "file"
    THEN Walk(inputFile, FALSE, <<>>)
    ELSE IF f.Kind = "file"
    THEN IF Len(inputFile) = 0
         THEN Walk(structField, TRUE, <<>>)
         ELSE Walk(inputFile[1], FALSE, <<>>)
    ELSE Walk(structField, FALSE, <<>>)

\* mapForm lines 292-327: a field with a form tag.
mapTagged(f, structField, form, formfile, errors) ==
    IF ~f.exported THEN Walk(structField, FALSE, <<>>)
    ELSE IF Has(form, f.form) THEN mapValues(f, structField, form[f.form], errors)
    ELSE IF ~Has(formfile, f.form) THEN Walk(structField, FALSE, <<>>)
    ELSE mapFiles(f, structField, formfile[f.form])

\* mapForm line 285: the record an anonymous pointer field is set to before
\* the walk descends into it.
Allocate(typeField, structField) == <<ZeroStruct(typeField.Elem)>>

\* mapForm lines 287-289
Collapse(typeField, structField) ==
    IF structField[1] = ZeroStruct(typeField.Elem) THEN Nil ELSE structField

\* mapForm lines 286-289: the pointer after the walk inside its record.
Embedded(typeField, inner) ==
    Walk(IF inner.panic THEN <<inner.val>> ELSE Collapse(typeField, <<inner.val>>),
         inner.panic, inner.raised)

\* mapForm: field i of the record is what the walk of the field left.
Merge(s, i, r) == Walk([s.val EXCEPT ![i] = r.val], r.panic, s.raised \o r.raised)

RECURSIVE mapFormFrom(_, _, _, _, _, _)

\* mapForm lines 281-328: field i.
mapField(typeField, structField, form, formfile, errors) ==
    IF typeField.Kind = "ptr" /\ typeField.Anonymous
    THEN Embedded(typeField,
                  mapFormFrom(typeField.Elem,
                              Walk(Allocate(typeField, structField)[1], FALSE, <<>>),
                              form, formfile, errors, 1))
    ELSE IF typeField.Kind = "struct"
    THEN mapFormFrom(typeField.Elem, Walk(structField, FALSE, <<>>),
                     form, formfile, errors, 1)
    ELSE IF typeField.form # ""
    THEN mapTagged(typeField, structField, form, formfile, errors)
    ELSE Walk(structField, FALSE, <<>>)

\* mapForm lines 280-329: the loop from field i on.
mapFormFrom(t, s, form, formfile, errors, i) ==
    IF s.panic \/ i > NumField(t) THEN s
    ELSE mapFormFrom(t, Merge(s, i, mapField(FieldsOf(t)[i], s.val[i], form, formfile, errors)),
                     form, formfile, errors, i + 1)

\* mapForm(formStruct, form, formfile, errors): it returns nothing; the
\* caller's errors are the ones it passed.
mapForm(t, formStruct, form, formfile, errors) ==
    mapFormFrom(t, Walk(formStruct, FALSE, <<>>), form, formfile, errors, 1)

(***************************************************************************)
(* Rule Validator                                                          *)
(***************************************************************************)
\* utf8.RuneCountInString on the literals.
RuneCount(str) ==
    CASE str = "" -> 0
      [] str = "notanumber" -> 10
      [] OTHER -> 1

\* fmt.Sprintf("%v", fieldValue): a string prints as itself, an integer in
\* decimal, a boolean as true or false; a slice, a record and a pointer
\* print with brackets, braces or angle brackets around them.
Sprintf(kind, fieldValue) ==
    CASE kind = "string" -> fieldValue
      [] kind = "int" -> IF fieldValue = 0 THEN "0" ELSE IF fieldValue = 1 THEN "1" ELSE "2"
      [] kind = "bool" -> IF fieldValue THEN "true" ELSE "false"
      [] OTHER -> "[]"

\* alphaDashPattern / alphaDashDotPattern: the text has a character outside
\* the letters, digits, dash, underscore (and dot).
alphaDashMatch(str) == str = "[]"

\* emailPattern and urlPattern: none of the literals is an address or a URL.
emailMatch(str) == FALSE

urlMatch(str) == FALSE

\* validateStruct lines 217-268: the switch on one rule of a field.
matchRule(errors, f, fieldValue, rule) ==
    CASE rule.name = "Required" ->
           IF fieldValue = Zero(f.Kind, f.Elem)
           THEN Add(errors, <<f.Name>>, "RequiredError", "Required") ELSE errors
      [] rule.name = "AlphaDash" ->
           IF alphaDashMatch(Sprintf(f.Kind, fieldValue))
           THEN Add(errors, <<f.Name>>, "AlphaDashError", "AlphaDash") ELSE errors
      [] rule.name = "AlphaDashDot" ->
           IF alphaDashMatch(Sprintf(f.Kind, fieldValue))
           THEN Add(errors, <<f.Name>>, "AlphaDashDotError", "AlphaDashDot") ELSE errors
      [] rule.name = "MinSize" ->
           IF f.Kind = "string" /\ RuneCount(fieldValue) < rule.n
           THEN Add(errors, <<f.Name>>, "MinSizeError", "MinSize")
           ELSE IF f.Kind = "slice" /\ Len(fieldValue) < rule.n
           THEN Add(errors, <<f.Name>>, "MinSizeError", "MinSize") ELSE errors
      [] rule.name = "MaxSize" ->
           IF f.Kind = "string" /\ RuneCount(fieldValue) > rule.n
           THEN Add(errors, <<f.Name>>, "MaxSizeError", "MaxSize")
           ELSE IF f.Kind = "slice" /\ Len(fieldValue) > rule.n
           THEN Add(errors, <<f.Name>>, "MaxSizeError", "MaxSize") ELSE errors
      [] rule.name = "Email" ->
           IF ~emailMatch(Sprintf(f.Kind, fieldValue))
           THEN Add(errors, <<f.Name>>, "EmailError", "Email") ELSE errors
      [] rule.name = "Url" ->
           IF Sprintf(f.Kind, fieldValue) = "" THEN errors
           ELSE IF ~urlMatch(Sprintf(f.Kind, fieldValue))
           THEN Add(errors, <<f.Name>>, "UrlError", "Url") ELSE errors
      [] OTHER -> errors

RECURSIVE matchRules(_, _, _, _)
\* validateStruct lines 212-269: the rules of a field, in their order.
matchRules(errors, f, fieldValue, k) ==
    IF k > Len(f.binding) THEN errors
    ELSE matchRules(matchRule(errors, f, fieldValue, f.binding[k]), f, fieldValue, k + 1)

SkippedMarkerOnly(field) == field.form = "-"

\* validateStruct line 197
Skipped(field) == field.form = "-" \/ ~field.exported

\* validateStruct lines 205-207
Descends(field, fieldValue) ==
    \/ field.Kind = "struct"
    \/ field.Kind = "ptr" /\ fieldValue # Nil

RECURSIVE validateStruct(_, _, _)

validateFieldRulesFirst(errors, field, fieldValue) ==
    LET own == matchRules(errors, field, fieldValue, 1)
    IN  IF Descends(field, fieldValue)
        THEN validateStruct(own, field.Elem,
                            IF field.Kind = "ptr" THEN fieldValue[1] ELSE fieldValue)
        ELSE own

\* validateStruct lines 201-269: one field that is not skipped.
validateField(errors, field, fieldValue) ==
    LET nested == IF Descends(field, fieldValue)
                  THEN validateStruct(errors, field.Elem,
                                      IF field.Kind = "ptr" THEN fieldValue[1] ELSE fieldValue)
                  ELSE errors
    IN  matchRules(nested, field, fieldValue, 1)

RECURSIVE validateFrom(_, _, _, _)
validateFrom(errors, t, val, i) ==
    IF i > NumField(t) THEN errors
    ELSE validateFrom(IF Skipped(FieldsOf(t)[i]) THEN errors
                      ELSE validateField(errors, FieldsOf(t)[i], val[i]),
                      t, val, i + 1)

\* validateStruct(errors, obj) for obj a record of type t or a pointer to one.
validateStruct(errors, t, val) == validateFrom(errors, t, val, 1)

\* The types that have the method ValidateBinder: Post, and BlogPost, which
\* embeds Post.
IsValidator(t) == t \in {"Post", "BlogPost"}

\* Post.ValidateBinder
ValidateBinder(t, val, errors) ==
    LET p == IF t = "Post" THEN val ELSE val[1]
    IN  IF RuneCount(p[1]) < 10
        THEN Append(errors, NewError(<<"Title">>, "LengthError", "Life is too short"))
        ELSE errors

\* validate lines 417-422: the hook, if the type has it, is given the errors
\* of the built-in pass and returns the validator's errors.
Hooked(t, val, bindErrors) ==
    IF IsValidator(t)
    THEN [errors |-> ValidateBinder(t, val, bindErrors), hookArgs |-> <<bindErrors>>,
          panic |-> FALSE, trace |-> <<"validateStruct", "ValidateBinder">>]
    ELSE [errors |-> bindErrors, hookArgs |-> <<>>, panic |-> FALSE,
          trace |-> <<"validateStruct">>]

\* validate(obj, req) for obj the record (indirections = 0), a pointer to it
\* (1) or a pointer to a pointer to it (2): the errors it returns, the
\* errors each call of the hook was given, and whether it panicked, which
\* reflect's NumField does for a type that is not a record.
validate(t, val, indirections) ==
    IF indirections > 1
    THEN [errors |-> <<>>, hookArgs |-> <<>>, panic |-> TRUE, trace |-> <<"validateStruct">>]
    ELSE Hooked(t, val, validateStruct(<<>>, t, val))

(***************************************************************************)
(* Entry points.  A target is how it is passed (ref), its record type and  *)
(* the record's value:                                                     *)
(*   "value"     the record itself, not a reference                        *)
(*   "ptr"       a pointer to the record                                   *)
(*   "ptrptr"    a pointer to a pointer to the record                      *)
(*   "ptrnil"    a pointer to a nil pointer to the record type             *)
(*   "nilptr"    a nil pointer to the record type                          *)
(*   "ptrscalar" a pointer to a value that is no record                    *)
(***************************************************************************)
Refs == {"value", "ptr", "ptrptr", "ptrnil", "nilptr", "ptrscalar"}

Target(ref, type, val) == [ref |-> ref, type |-> type, val |-> val]

IsReferenceAlways(formStruct) == TRUE

\* Lines 58-61: v.Kind() == reflect.Ptr
IsReference(formStruct) == formStruct.ref # "value"

\* Lines 64-67: a nil pointer behind the reference is set to a new record.
Reset(formStruct) ==
    IF formStruct.ref = "ptrnil"
    THEN Target("ptrptr", formStruct.type, ZeroStruct(formStruct.type))
    ELSE formStruct

\* Lines 69-70: after reflect.Indirect, v is a record that can be set.
IsStructure(formStruct) == formStruct.ref \in {"ptr", "ptrptr"}

\* The number of pointers between the argument and the record.
Indirections(formStruct) == IF formStruct.ref = "ptrptr" THEN 2 ELSE 1

\* What a call leaves behind: the target, the Errors returned (none when the
\* call panicked), the steps taken, the arguments of the hook's calls and
\* the errors dropped with a callee's copy.
Outcome(target, errors, panic, steps, hooks, dropped) ==
    [obj |-> target, ret |-> IF panic THEN <<>> ELSE errors,
     pc |-> IF panic THEN "panic" ELSE "done",
     trace |-> steps, hookArgs |-> hooks, raised |-> dropped]

\* Lines 58-72, 97-111, 145-159: the structural preconditions.
Precondition(formStruct) ==
    IF ~IsReference(formStruct) THEN <<ErrorInputNotByReference>>
    ELSE IF ~IsStructure(Reset(formStruct)) THEN <<ErrorInputIsNotStructure>>
    ELSE <<>>

\* Lines 83-87, 130-134, 169-173: the validator's errors follow the binder's.
Validated(target, bindErrors, steps, dropped, v) ==
    Outcome(target, bindErrors \o v.errors, v.panic, steps \o v.trace, v.hookArgs, dropped)

\* Lines 82-87 and 129-134: after mapForm (m) the record is validated.
Mapped(v, bindErrors, steps, m) ==
    IF m.panic
    THEN Outcome(Target(v.ref, v.type, m.val), <<>>, TRUE, steps, <<>>, m.raised)
    ELSE Validated(Target(v.ref, v.type, m.val), bindErrors, steps, m.raised,
                   validate(v.type, m.val, 0))

\* Lines 78-81: the errors after req.ParseForm().
Parsed(r) ==
    IF r.parseErr THEN Add(<<>>, <<>>, "DeserializationError", "parse error") ELSE <<>>

\* Form(formStruct, req)
Form(formStruct, r) ==
    IF Precondition(formStruct) # <<>>
    THEN Outcome(formStruct, Precondition(formStruct), FALSE, <<>>, <<>>, <<>>)
    ELSE Mapped(Reset(formStruct), Parsed(r), <<"ParseForm", "mapForm">>,
                mapForm(formStruct.type, Reset(formStruct).val, r.Form, EmptyBag, Parsed(r)))

\* Lines 114-127: req.MultipartForm after the check (Nil when the reader or
\* the reading failed), the errors, and the steps taken.
Reparsed(r) ==
    IF r.MultipartForm # Nil
    THEN [form |-> r.MultipartForm, errors |-> <<>>, steps |-> <<>>]
    ELSE IF r.reader = "ok"
    THEN [form |-> <<r.parts>>, errors |-> <<>>, steps |-> <<"MultipartReader", "ReadForm">>]
    ELSE [form |-> Nil, errors |-> Add(<<>>, <<>>, "DeserializationError", r.reader),
          steps |-> IF r.reader = "no reader" THEN <<"MultipartReader">>
                    ELSE <<"MultipartReader", "ReadForm">>]

\* Lines 129-134: req.MultipartForm.Value of a nil req.MultipartForm panics.
MultipartMapped(v, p) ==
    IF p.form = Nil
    THEN Outcome(v, <<>>, TRUE, p.steps, <<>>, <<>>)
    ELSE Mapped(v, p.errors, p.steps \o <<"mapForm">>,
                mapForm(v.type, v.val, p.form[1].Value, p.form[1].File, p.errors))

\* MultipartForm(formStruct, req)
MultipartForm(formStruct, r) ==
    IF Precondition(formStruct) # <<>>
    THEN Outcome(formStruct, Precondition(formStruct), FALSE, <<>>, <<>>, <<>>)
    ELSE MultipartMapped(Reset(formStruct), Reparsed(r))

\* Lines 161-167: the target and the errors after the body is decoded.
Decoded(v, r) ==
    [obj |-> IF r.Body = "document" THEN Target(v.ref, v.type, r.document) ELSE v,
     errors |-> IF r.Body = "malformed"
                THEN Add(<<>>, <<>>, "DeserializationError", "malformed") ELSE <<>>,
     steps |-> IF r.Body = "nil" THEN <<>> ELSE <<"Decode">>]

\* Lines 169-173
JsonValidated(d) ==
    Validated(d.obj, d.errors, d.steps, <<>>,
              validate(d.obj.type, d.obj.val, Indirections(d.obj)))

\* Json(jsonStruct, req)
Json(jsonStruct, r) ==
    IF Precondition(jsonStruct) # <<>>
    THEN Outcome(jsonStruct, Precondition(jsonStruct), FALSE, <<>>, <<>>, <<>>)
    ELSE JsonValidated(Decoded(Reset(jsonStruct), r))

\* strings.Contains(contentType, marker): the markers a content type holds.
Contains(contentType, marker) ==
    CASE contentType = "application/x-www-form-urlencoded" -> marker = "form-urlencoded"
      [] contentType = "multipart/form-data; boundary=json" ->
           marker \in {"multipart/form-data", "json"}
      [] contentType = "multipart/form-data" -> marker = "multipart/form-data"
      [] contentType = "application/json; charset=utf-8" -> marker = "json"
      [] OTHER -> FALSE

DispatchJsonFirst(r) ==
    IF r.Method = "POST" \/ r.Method = "PUT" \/ r.ContentType # ""
    THEN IF Contains(r.ContentType, "form-urlencoded") THEN "Form"
         ELSE IF Contains(r.ContentType, "json") THEN "Json"
         ELSE IF Contains(r.ContentType, "multipart/form-data") THEN "MultipartForm"
         ELSE IF r.ContentType = "" THEN "unsupported"
         ELSE "empty"
    ELSE "Form"

\* Bind lines 24-43: the path a request takes.
Dispatch(r) ==
    IF r.Method = "POST" \/ r.Method = "PUT" \/ r.ContentType # ""
    THEN IF Contains(r.ContentType, "form-urlencoded") THEN "Form"
         ELSE IF Contains(r.ContentType, "multipart/form-data") THEN "MultipartForm"
         ELSE IF Contains(r.ContentType, "json") THEN "Json"
         ELSE IF r.ContentType = "" THEN "empty"
         ELSE "unsupported"
    ELSE "Form"

\* Bind(obj, req)
Bind(target, r) ==
    CASE Dispatch(r) = "Form" -> Form(target, r)
      [] Dispatch(r) = "MultipartForm" -> MultipartForm(target, r)
      [] Dispatch(r) = "Json" -> Json(target, r)
      [] Dispatch(r) = "empty" ->
           Outcome(target, <<ErrorEmptyContentType>>, FALSE, <<>>, <<>>, <<>>)
      [] Dispatch(r) = "unsupported" ->
           Outcome(target, <<ErrorUnsupportedContentType>>, FALSE, <<>>, <<>>, <<>>)

(***************************************************************************)
(* Inputs: the targets a caller passes and the requests it receives.       *)
(***************************************************************************)
Files == {"f1", "f2"}

\* A value of a type with no field at its zero value.
RECURSIVE NonZero(_, _)
NonZero(kind, elem) ==
    CASE kind = "string" -> "2"
      [] kind = "int" -> 2
      [] kind = "file" -> "f0"
      [] kind = "slice" -> <<NonZero(elem, "")>>
      [] kind = "ptr" -> <<NonZero("struct", elem)>>
      [] kind = "struct" ->
           [i \in 1..NumField(elem) |-> NonZero(FieldsOf(elem)[i].Kind, FieldsOf(elem)[i].Elem)]

\* The zero value of a type but for its pointers, which hold zero records.
RECURSIVE Allocated(_, _)
Allocated(kind, elem) ==
    CASE kind = "ptr" -> <<Allocated("struct", elem)>>
      [] kind = "struct" ->
           [i \in 1..NumField(elem) |-> Allocated(FieldsOf(elem)[i].Kind, FieldsOf(elem)[i].Elem)]
      [] OTHER -> Zero(kind, elem)

Values(t) == {ZeroStruct(t), NonZero("struct", t), Allocated("struct", t)}

\* The targets of record type t.
Targets(t) ==
    {Target(ref, t, val) : ref \in {"value", "ptr", "ptrptr"}, val \in Values(t)}
    \cup {Target("ptrnil", t, Nil), Target("nilptr", t, Nil)}

\* The form tags of a record type and of the records inside it.
RECURSIVE Keys(_)
Keys(t) ==
    UNION { IF FieldsOf(t)[i].Kind \in {"struct", "ptr"} THEN Keys(FieldsOf(t)[i].Elem)
            ELSE IF FieldsOf(t)[i].form = "" THEN {} ELSE {FieldsOf(t)[i].form}
            : i \in 1..NumField(t) }

KeysFor(target) == IF target.type \in Types THEN Keys(target.type) ELSE {}

ListsOf(S, n) == UNION {[1..k -> S] : k \in 0..n}

\* A bag with one key and up to MaxVals values, or two keys with one value each.
Bags(target) ==
    {EmptyBag}
    \cup {k :> l : k \in KeysFor(target), l \in ListsOf(Lits, MaxVals)}
    \cup UNION {{k1 :> <<x1>> @@ k2 :> <<x2>> :
                    k2 \in KeysFor(target) \ {k1}, x1 \in Lits, x2 \in Lits} :
                 k1 \in KeysFor(target)}

SmallBags(target) == {EmptyBag} \cup {k :> <<"1">> : k \in KeysFor(target)}

FileBags(target) ==
    {k :> l : k \in KeysFor(target), l \in ListsOf(Files, MaxFiles)}

Documents(target) ==
    IF target.type \in Types
    THEN Values(target.type) ELSE {Nil}

NoRequest ==
    [Method |-> "GET", ContentType |-> "", Form |-> EmptyBag, parseErr |-> FALSE,
     MultipartForm |-> Nil, reader |-> "ok", parts |-> [Value |-> EmptyBag, File |-> EmptyBag],
     Body |-> "nil", document |-> Nil]

FormRequests(target) ==
    {[NoRequest EXCEPT !.Form = b] : b \in Bags(target)}
    \cup {[NoRequest EXCEPT !.Form = b, !.parseErr = TRUE] : b \in SmallBags(target)}

MultipartRequests(target) ==
    {[NoRequest EXCEPT !.MultipartForm = <<[Value |-> b, File |-> EmptyBag]>>] :
        b \in Bags(target)}
    \cup {[NoRequest EXCEPT !.MultipartForm = <<[Value |-> b, File |-> f]>>] :
        b \in SmallBags(target), f \in FileBags(target)}
    \cup {[NoRequest EXCEPT !.reader = x, !.parts = [Value |-> b, File |-> EmptyBag]] :
        x \in {"ok", "no reader", "read error"}, b \in SmallBags(target)}

JsonRequests(target) ==
    {[NoRequest EXCEPT !.Body = x] : x \in {"nil", "empty", "malformed"}}
    \cup {[NoRequest EXCEPT !.Body = "document", !.document = d] : d \in Documents(target)}

Methods == {"GET", "POST", "PUT", "DELETE"}

ContentTypes ==
    {"", "application/x-www-form-urlencoded", "multipart/form-data",
     "multipart/form-data; boundary=json", "application/json; charset=utf-8", "text/plain"}

BindRequests(target) ==
    {[q EXCEPT !.Method = m, !.ContentType = c] :
        q \in {[NoRequest EXCEPT !.Form = b] : b \in SmallBags(target)}
              \cup {[NoRequest EXCEPT !.MultipartForm = <<[Value |-> b, File |-> EmptyBag]>>,
                                      !.Body = "empty"] : b \in SmallBags(target)},
        m \in Methods, c \in ContentTypes}

(***************************************************************************)
(* The state machine: one call of an entry point on a target.              *)
(***************************************************************************)
Init ==
    /\ \/ \E t \in Types : obj \in Targets(t)
       \/ obj = Target("ptrscalar", "int", 0)
    /\ old = obj
    /\ req = NoRequest
    /\ call = "none"
    /\ route = "none"
    /\ pc = "start"
    /\ ret = <<>>
    /\ trace = <<>>
    /\ hookArgs = <<>>
    /\ raised = <<>>

Returns(entry, path, r, o) ==
    /\ call' = entry
    /\ route' = path
    /\ req' = r
    /\ obj' = o.obj
    /\ ret' = o.ret
    /\ pc' = o.pc
    /\ trace' = o.trace
    /\ hookArgs' = o.hookArgs
    /\ raised' = o.raised
    /\ UNCHANGED old

CallForm ==
    /\ pc = "start"
    /\ \E r \in FormRequests(obj) : Returns("Form", "Form", r, Form(obj, r))

CallMultipartForm ==
    /\ pc = "start"
    /\ \E r \in MultipartRequests(obj) :
          Returns("MultipartForm", "MultipartForm", r, MultipartForm(obj, r))

CallJson ==
    /\ pc = "start"
    /\ \E r \in JsonRequests(obj) : Returns("Json", "Json", r, Json(obj, r))

CallBind ==
    /\ pc = "start"
    /\ \E r \in BindRequests(obj) : Returns("Bind", Dispatch(r), r, Bind(obj, r))

Next == CallForm \/ CallMultipartForm \/ CallJson \/ CallBind

Spec == Init /\ [][Next]_vars

TypeOK ==
    /\ pc \in {"start", "done", "panic"}
    /\ call \in {"none", "Form", "MultipartForm", "Json", "Bind"}
    /\ obj.ref \in Refs

(***************************************************************************)
(* Properties                                                              *)
(***************************************************************************)
Did(step) == \E i \in 1..Len(trace) : trace[i] = step

Occurrences(errors, e) == Cardinality({i \in 1..Len(errors) : errors[i] = e})

\* What the call left behind, to compare with what a path leaves behind.
Left ==
    [obj |-> obj, ret |-> ret, pc |-> pc, trace |-> trace, hookArgs |-> hookArgs,
     raised |-> raised]

\* The string values and the file values the binder was given.
StringValues ==
    IF route = "Form" THEN req.Form
    ELSE IF req.MultipartForm # Nil THEN req.MultipartForm[1].Value ELSE req.parts.Value

FileValues ==
    IF route = "Form" THEN EmptyBag
    ELSE IF req.MultipartForm # Nil THEN req.MultipartForm[1].File ELSE req.parts.File

Bound == route \in {"Form", "MultipartForm"} /\ Did("mapForm")

\* C1: a coercion failure does not abort binding and is reported: every
\* failure raised by setWithProperType during mapForm is in the Errors the
\* entry point returns, and a BlogPost bound from rating = 1, 2, notanumber
\* ends with Ratings = 1, 2, 0 and exactly one IntegerTypeError for rating.
C1_CoercionFailuresReported ==
    (Bound /\ pc = "done") =>
      /\ \A i \in 1..Len(raised) : Occurrences(ret, raised[i]) >= Occurrences(raised, raised[i])
      /\ (old.type = "BlogPost" /\ Has(StringValues, "rating")
            /\ StringValues["rating"] = <<"1", "2", "notanumber">>) =>
           /\ obj.val[4] = <<1, 2, 0>>
           /\ Cardinality({i \in 1..Len(ret) :
                             /\ ret[i].Classification = "IntegerTypeError"
                             /\ ret[i].FieldNames = <<"rating">>}) = 1

\* C2: on Form, MultipartForm and Json a target that is not a reference
\* yields exactly the error ErrorInputNotByReference and nothing else is
\* done: no parsing, no binding, no validation, no hook, target unchanged.
C2_NotByReference ==
    (pc # "start" /\ route \in {"Form", "MultipartForm", "Json"} /\ old.ref = "value") =>
      /\ pc = "done"
      /\ ret = <<ErrorInputNotByReference>>
      /\ trace = <<>>
      /\ hookArgs = <<>>
      /\ raised = <<>>
      /\ obj = old

C2_Witness ==
    /\ pc = "done"
    /\ call = "MultipartForm"
    /\ old.ref = "value"
    /\ old.type = "BlogPost"
    /\ req.MultipartForm # Nil
    /\ Has(req.MultipartForm[1].Value, "title")
    /\ ret = <<ErrorInputNotByReference>>

NoMarker(contentType) ==
    \A marker \in {"form-urlencoded", "multipart/form-data", "json"} :
        ~Contains(contentType, marker)

\* C9: Bind sends a form-urlencoded content type to Form, else a
\* multipart/form-data one to MultipartForm, else a json one to Json, and an
\* empty content type on a method other than POST and PUT to Form; any other
\* non-empty content type returns exactly ErrorUnsupportedContentType and an
\* empty one on POST or PUT exactly ErrorEmptyContentType, which differ, and
\* then the target is unchanged and neither binder nor validator has run.
C9_BindDispatch ==
    (call = "Bind" /\ pc # "start") =>
      LET ct == req.ContentType
          body == req.Method \in {"POST", "PUT"}
          stopped == /\ pc = "done" /\ obj = old /\ trace = <<>>
                     /\ hookArgs = <<>> /\ raised = <<>>
      IN  /\ Contains(ct, "form-urlencoded") => route = "Form" /\ Left = Form(old, req)
          /\ (~Contains(ct, "form-urlencoded") /\ Contains(ct, "multipart/form-data")) =>
                route = "MultipartForm" /\ Left = MultipartForm(old, req)
          /\ (~Contains(ct, "form-urlencoded") /\ ~Contains(ct, "multipart/form-data")
                /\ Contains(ct, "json")) => route = "Json" /\ Left = Json(old, req)
          /\ (ct = "" /\ ~body) => route = "Form" /\ Left = Form(old, req)
          /\ (ct # "" /\ NoMarker(ct)) =>
                /\ route = "unsupported"
                /\ ret = <<ErrorUnsupportedContentType>>
                /\ ret # <<ErrorEmptyContentType>>
                /\ stopped
          /\ (ct = "" /\ body) =>
                /\ route = "empty"
                /\ ret = <<ErrorEmptyContentType>>
                /\ ret # <<ErrorUnsupportedContentType>>
                /\ stopped

C9_Witness ==
    /\ call = "Bind"
    /\ pc = "done"
    /\ req.Method = "POST"
    /\ req.ContentType = "text/plain"
    /\ old.ref = "ptr"
    /\ old.val # ZeroStruct(old.type)
    /\ Has(req.Form, "title")
    /\ ret = <<ErrorUnsupportedContentType>>

\* The target's record when the binder started on it.
Before == IF old.ref = "ptrnil" THEN ZeroStruct(old.type) ELSE old.val

RequiredErrors(name) ==
    Cardinality({i \in 1..Len(ret) : /\ ret[i].Classification = "RequiredError"
                                     /\ ret[i].FieldNames = <<name>>})

IsRequired(field) == \E k \in 1..Len(field.binding) : field.binding[k] = Required

\* The names of the Required fields at their zero value in a record and in
\* the records inside it, one entry per field; with checked, only the fields
\* that are exported and do not carry the ignore marker.
RECURSIVE RequiredAtZero(_, _, _, _)
RequiredAtZero(t, val, checked, i) ==
    IF i > NumField(t) THEN <<>>
    ELSE LET f == FieldsOf(t)[i]
             inside == IF f.Kind = "struct" THEN RequiredAtZero(f.Elem, val[i], checked, 1)
                       ELSE IF f.Kind = "ptr" /\ val[i] # Nil
                       THEN RequiredAtZero(f.Elem, val[i][1], checked, 1)
                       ELSE <<>>
             own == IF IsRequired(f) /\ val[i] = Zero(f.Kind, f.Elem) THEN <<f.Name>> ELSE <<>>
         IN  (IF checked /\ (f.form = "-" \/ ~f.exported) THEN <<>> ELSE inside \o own)
             \o RequiredAtZero(t, val, checked, i + 1)

NamesIn(names) == {names[i] : i \in 1..Len(names)}

TimesIn(names, name) == Cardinality({i \in 1..Len(names) : names[i] = name})

\* C3 as stated: every Required field left at its zero value, at any declared
\* position and whatever its other tags, gets exactly one RequiredError
\* naming it: the RequiredErrors with a name are as many as the Required
\* fields of that name at their zero value.
C3_RequiredExactlyOne ==
    (pc = "done" /\ Did("validateStruct")) =>
      \A name \in NamesIn(RequiredAtZero(obj.type, obj.val, FALSE, 1)) :
          RequiredErrors(name) = TimesIn(RequiredAtZero(obj.type, obj.val, FALSE, 1), name)

\* C3 amended: the validator reports one RequiredError for each Required
\* field left at its zero value that is exported and does not carry the
\* ignore marker, under the field's own name and for no other field: the
\* RequiredErrors with a name are as many as those fields with that name.
C3_RequiredOnePerCheckedField ==
    (pc = "done" /\ Did("validateStruct")) =>
      \A name \in NamesIn(RequiredAtZero(obj.type, obj.val, FALSE, 1))
                  \cup {ret[i].FieldNames[1] :
                          i \in {j \in 1..Len(ret) : ret[j].Classification = "RequiredError"}} :
          RequiredErrors(name) = TimesIn(RequiredAtZero(obj.type, obj.val, TRUE, 1), name)

C3_Witness ==
    /\ pc = "done"
    /\ call = "Form"
    /\ obj.type = "Signed"
    /\ obj.val = ZeroStruct("Signed")
    /\ RequiredErrors("Name") = 1
    /\ RequiredErrors("Signer") = 1
    /\ RequiredErrors("Count") = 1
    /\ RequiredErrors("Secret") = 0
    /\ RequiredErrors("hidden") = 0

BinderClasses ==
    {"DeserializationError", "IntegerTypeError", "BooleanTypeError", "FloatTypeError"}

HookClasses == {"LengthError"}

FromBinder(e) == e.Classification \in BinderClasses

FromHook(e) == e.Classification \in HookClasses

FromRules(e) == ~FromBinder(e) /\ ~FromHook(e)

\* The positions in ret of the errors named after field f, and of those named
\* after a field of the record f holds.
Own(f) == {i \in 1..Len(ret) : FromRules(ret[i]) /\ ret[i].FieldNames = <<f.Name>>}

Inside(f) ==
    {i \in 1..Len(ret) :
        /\ FromRules(ret[i])
        /\ \E k \in 1..NumField(f.Elem) : ret[i].FieldNames = <<FieldsOf(f.Elem)[k].Name>>}

\* The fields of the target that hold a record and carry rules.
RecordsWithRules ==
    {f \in {FieldsOf(obj.type)[i] : i \in 1..NumField(obj.type)} :
        f.Kind \in {"struct", "ptr"} /\ f.binding # <<>> /\ ~Skipped(f)}

BinderFirst ==
    \A i \in 1..Len(ret) : \A j \in 1..Len(ret) :
        (FromBinder(ret[i]) /\ ~FromBinder(ret[j])) => i < j

HookLast ==
    \A i \in 1..Len(ret) : \A j \in 1..Len(ret) :
        (FromHook(ret[i]) /\ ~FromHook(ret[j])) => j < i

\* C4 as stated: binder errors precede validator errors, a nested record's
\* own rule violations precede the violations found inside it, and the
\* hook's errors come last.
C4_OwnBeforeInside ==
    (pc = "done" /\ Did("validateStruct")) =>
      /\ BinderFirst
      /\ \A f \in RecordsWithRules : \A i \in Own(f) : \A j \in Inside(f) : i < j
      /\ HookLast

\* C4 amended: binder errors precede validator errors, the violations found
\* inside a nested record precede that field's own rule violations, and the
\* hook's errors come last.
C4_InsideBeforeOwn ==
    (pc = "done" /\ Did("validateStruct")) =>
      /\ BinderFirst
      /\ \A f \in RecordsWithRules : \A i \in Own(f) : \A j \in Inside(f) : j < i
      /\ HookLast

C4_Witness ==
    /\ pc = "done"
    /\ obj.type = "Signed"
    /\ req.parseErr
    /\ Len(ret) = 4
    /\ FromBinder(ret[1])
    /\ ret[2].FieldNames = <<"Name">>
    /\ ret[3].FieldNames = <<"Signer">>

\* The fields of the target's record, by position.
TargetFields == FieldsOf(old.type)

\* C5 as stated: after mapForm every field whose key is in neither mapping,
\* or that has no key, holds the value it had before, also inside a nested
\* record and behind an embedded pointer that was already populated, and its
\* absence is not reported.
RECURSIVE Untouched(_, _, _, _)
Untouched(t, before, after, i) ==
    IF i > NumField(t) THEN TRUE
    ELSE LET f == FieldsOf(t)[i]
             here ==
               IF f.Kind = "ptr" /\ f.Anonymous
               THEN IF before[i] # Nil
                    THEN after[i] # Nil /\ Untouched(f.Elem, before[i][1], after[i][1], 1)
                    ELSE after[i] = Nil \/ Untouched(f.Elem, ZeroStruct(f.Elem), after[i][1], 1)
               ELSE IF f.Kind = "struct"
               THEN Untouched(f.Elem, before[i], after[i], 1)
               ELSE (f.form = "" \/ (~Has(StringValues, f.form) /\ ~Has(FileValues, f.form)))
                       => after[i] = before[i]
         IN  here /\ Untouched(t, before, after, i + 1)

C5_AbsentKeysUntouched ==
    (Bound /\ pc = "done") =>
      /\ Untouched(old.type, Before, obj.val, 1)
      /\ \A i \in 1..Len(ret) :
            (FromBinder(ret[i]) /\ ret[i].FieldNames # <<>>) =>
               Has(StringValues, ret[i].FieldNames[1])

\* The coercion of each value of a key, in input order.
Coerced(f, inputValue) ==
    [j \in 1..Len(inputValue) |->
        setWithProperType(f.Elem, inputValue[j], Zero(f.Elem, ""), f.form, <<>>).field]

\* C6 as stated: for a sequence-typed field whose key is in the string values
\* with N values, for every N from 0 on, binding completes and the field is
\* the sequence of the N coerced values in input order (stated here for an
\* input that holds no other key).
C6_SequenceOfEveryLength ==
    Bound =>
      \A i \in 1..NumField(old.type) :
          LET f == TargetFields[i]
          IN  (f.Kind = "slice" /\ f.form # "" /\ f.exported /\ Has(StringValues, f.form)
                 /\ DOMAIN StringValues = {f.form}) =>
                 /\ pc = "done"
                 /\ obj.val[i] = Coerced(f, StringValues[f.form])

\* C7 as stated: a field with the ignore marker, or an unexported one, keeps
\* its value whatever the keys of the input, and gets no validation error.
C7_IgnoredNeverBound ==
    (Bound /\ pc = "done") =>
      \A i \in 1..NumField(old.type) :
          (TargetFields[i].form = "-" \/ ~TargetFields[i].exported) =>
             /\ obj.val[i] = Before[i]
             /\ \A k \in 1..Len(ret) : ret[k].FieldNames # <<TargetFields[i].Name>>

\* C8 as stated: once the structural preconditions hold and the validator
\* is entered, the hook of a target that has one is called exactly once,
\* after the built-in pass over the whole shape and with its errors, and
\* what the hook returns is the validator's part of the result.
C8_HookCalledOnce ==
    (pc # "start" /\ Did("validateStruct") /\ IsValidator(obj.type)) =>
      /\ Len(hookArgs) = 1
      /\ hookArgs[1] = validateStruct(<<>>, obj.type, obj.val)
      /\ trace[Len(trace)] = "ValidateBinder"
      /\ \E n \in 0..Len(ret) :
            /\ \A i \in 1..n : FromBinder(ret[i])
            /\ SubSeq(ret, n + 1, Len(ret)) = ValidateBinder(obj.type, obj.val, hookArgs[1])

\* C10 as stated: an anonymous embedded pointer is given a fresh record only
\* when it is empty, the walk descends into its record, and afterwards it is
\* empty exactly when every field of the record is at its zero value; one
\* that was populated keeps the values the input does not override.
C10_EmbeddedPointerKept ==
    (Bound /\ pc = "done") =>
      \A i \in 1..NumField(old.type) :
          LET f == TargetFields[i]
              kept == mapForm(f.Elem,
                              IF Before[i] = Nil THEN ZeroStruct(f.Elem) ELSE Before[i][1],
                              StringValues, FileValues, <<>>).val
          IN  (f.Kind = "ptr" /\ f.Anonymous) =>
                 obj.val[i] = IF kept = ZeroStruct(f.Elem) THEN Nil ELSE <<kept>>

\* The defensive re-parse of lines 114-127 ran and failed: the request came
\* with req.MultipartForm unpopulated and the reader could not be obtained
\* or could not be read.
ReparseFailed ==
    /\ route = "MultipartForm"
    /\ Precondition(old) = <<>>
    /\ req.MultipartForm = Nil
    /\ req.reader \in {"no reader", "read error"}

\* C11 as stated: on the multipart path, when req.MultipartForm came
\* unpopulated and the re-parse fails, MultipartForm returns normally with
\* Errors that hold a DeserializationError carrying that failure, and the
\* unpopulated req.MultipartForm is never dereferenced.
C11_ReparseFailureReturned ==
    ReparseFailed =>
      /\ pc = "done"
      /\ \E i \in 1..Len(ret) :
            /\ ret[i].Classification = "DeserializationError"
            /\ ret[i].Message = req.reader

====
